---------------------------- MODULE Spec2Model ----------------------------
(***************************************************************************)
(* Network Ping-Pong (src/main.c): two MPI ranks exchange messages of      *)
(* doubling size; rank 0 averages the timings of each size, writes one row *)
(* per size and derives a latency, a bandwidth and a buffer-size estimate. *)
(*                                                                         *)
(* The C doubles are modelled as exact non-negative rationals <<n, d>> in  *)
(* lowest terms.  gettimeofday() yields whole microseconds, so every       *)
(* duration and every total is an integer and every quotient the program   *)
(* forms is a rational; the rounding of IEEE double arithmetic is not      *)
(* modelled.                                                               *)
(***************************************************************************)
EXTENDS Integers, Sequences, FiniteSets, TLC

(***************************************************************************)
(* Program constants (src/main.c, lines 19-22).                            *)
(***************************************************************************)
MIN_MSG_SIZE == 1
MAX_MSG_SIZE == 1048576
NUM_ITERATIONS == 100
WARMUP_ITERATIONS == 10

(***************************************************************************)
(* Bounds of the model.                                                    *)
(***************************************************************************)
\* the clock advances by 1 microsecond across an MPI_Send of a size the
\* transport sends quickly, by MaxSendTick across one of a size it sends slowly
MaxSendTick == 2
\* the clock advances by RecvTick microseconds across one MPI_Recv
RecvTick == 1
\* longest synthetic aggregate sequence fed to the estimate trackers
MaxAggs == 3

Ranks == {0, 1}
Peer(r) == 1 - r

(***************************************************************************)
(* Rational arithmetic standing for the C double arithmetic.               *)
(***************************************************************************)
RECURSIVE GCD(_, _)
GCD(a, b) == IF b = 0 THEN a ELSE GCD(b, a % b)

\* the double n/d
Rat(n, d) == LET g == GCD(n, d) IN IF g = 0 THEN <<0, 1>> ELSE <<n \div g, d \div g>>

\* (double) of an int
RInt(n) == <<n, 1>>

\* a < b on doubles; integer parts first, so that no product leaves 32 bits
RLess(a, b) ==
    LET qa == a[1] \div a[2]
        qb == b[1] \div b[2]
    IN  \/ qa < qb
        \/ qa = qb /\ (a[1] % a[2]) * b[2] < (b[1] % b[2]) * a[2]

RLeq(a, b) == ~RLess(b, a)

\* a / 2.0
RHalf(a) == Rat(a[1], 2 * a[2])

\* a * 1.5
RTimes15(a) == Rat(3 * a[1], 2 * a[2])

\* printf("%.2f"): the value rounded to hundredths, as <<whole, hundredths>>
Fmt2(a) ==
    LET q == a[1] \div a[2]
        h == ((a[1] % a[2]) * 200 + a[2]) \div (2 * a[2])
    IN  IF h = 100 THEN <<q + 1, 0>> ELSE <<q, h>>


(***************************************************************************)
(* State.  Every per-process C variable is a function of the rank.         *)
(***************************************************************************)
VARIABLES
    pc,                   \* each rank's position in main()
    msg_size,             \* the for-loop variable (line 100)
    i,                    \* the round counter of the inner loops (108, 128)
    t_start, t_after_send, t_after_recv,            \* lines 130-152
    total_send_time, total_recv_time, total_rtt,    \* lines 103-105
    avg_send, avg_recv, avg_rtt, bandwidth_mbps,    \* lines 160-170
    min_rtt, max_bandwidth, buffer_size_estimate,   \* lines 93-95
    prev_send_time, buffer_detected,                \* lines 96-97
    latency_estimate, bandwidth_estimate,           \* lines 217-218
    nrows, lastRow, summary,   \* what each rank has written to results.csv
    chan,                 \* chan[r]: the messages sent to rank r, in order
    arrived, released,    \* MPI_Barrier: who waits in it, who may leave it
    send_cost,            \* microseconds one MPI_Send of this size takes
    visited,              \* the sizes each rank's loop body has entered
    calls,                \* MPI_Send calls and MPI_Recv returns of each rank
                          \* at its current size
    input, pos, pass, pass1    \* a synthetic aggregate sequence and its scan

procVars == <<pc, msg_size, i, visited, calls>>
clockVars == <<t_start, t_after_send, t_after_recv>>
totalVars == <<total_send_time, total_recv_time, total_rtt>>
aggVars == <<avg_send, avg_recv, avg_rtt, bandwidth_mbps>>
estVars == <<min_rtt, max_bandwidth, buffer_size_estimate, prev_send_time,
             buffer_detected>>
outVars == <<latency_estimate, bandwidth_estimate, nrows, lastRow, summary>>
netVars == <<chan, arrived, released, send_cost>>
scanVars == <<input, pos, pass, pass1>>
vars == <<procVars, clockVars, totalVars, aggVars, estVars, outVars, netVars,
          scanVars>>

SendTicks == {1, MaxSendTick}

(***************************************************************************)
(* The arithmetic of the per-size block, lines 159-206.                    *)
(***************************************************************************)
\* lines 160-162: total / NUM_ITERATIONS
AvgOf(total) == Rat(total, NUM_ITERATIONS)

\* Bandwidth without the factor 2 of the round trip
MutBandwidth(m, rtt) ==
    IF RLess(RInt(0), rtt) THEN Rat(m * rtt[2], rtt[1]) ELSE RInt(0)

\* lines 166-170: (2.0 * msg_size) / avg_rtt when avg_rtt > 0, else 0.0
Bandwidth(m, rtt) ==
    IF RLess(RInt(0), rtt) THEN Rat(2 * m * rtt[2], rtt[1]) ELSE RInt(0)

\* TrackMinRtt without the 64-byte cutoff
MutTrackMinRtt(m, rtt, cur) == IF RLess(rtt, cur) THEN rtt ELSE cur

\* lines 184-187
TrackMinRtt(m, rtt, cur) == IF m <= 64 /\ RLess(rtt, cur) THEN rtt ELSE cur

\* TrackMaxBandwidth keeping the latest bandwidth instead of the greatest
MutTrackMaxBandwidth(bw, cur) == bw

\* lines 190-193
TrackMaxBandwidth(bw, cur) == IF RLess(cur, bw) THEN bw ELSE cur

\* JumpLatches without the 1024-byte floor
MutJumpLatches(m, send, prev, detected) ==
    /\ detected = 0
    /\ RLess(RInt(0), prev)
    /\ RLess(RTimes15(prev), send)

\* lines 197-200: the condition under which the threshold is latched
JumpLatches(m, send, prev, detected) ==
    /\ detected = 0
    /\ RLess(RInt(0), prev)
    /\ RLess(RTimes15(prev), send)
    /\ m >= 1024

\* ThresholdOf without the halving
MutThresholdOf(m) == m

\* line 202
ThresholdOf(m) == m \div 2

\* Reports of a program in which every rank reports
MutReports(r) == TRUE

\* lines 173 and 214: if (rank == 0), the guard of the row, of the trackers
\* and of the summary
Reports(r) == r = 0

(***************************************************************************)
(* Lines 159-207 as executed by rank r: the averages and the bandwidth on  *)
(* both ranks, the row and the trackers on rank 0 only.                    *)
(***************************************************************************)
AggregateBlock(r) ==
    LET as == AvgOf(total_send_time[r])
        ar == AvgOf(total_recv_time[r])
        rtt == AvgOf(total_rtt[r])
        bw == Bandwidth(msg_size[r], rtt)
    IN  /\ avg_send' = [avg_send EXCEPT ![r] = as]
        /\ avg_recv' = [avg_recv EXCEPT ![r] = ar]
        /\ avg_rtt' = [avg_rtt EXCEPT ![r] = rtt]
        /\ bandwidth_mbps' = [bandwidth_mbps EXCEPT ![r] = bw]
        /\ IF Reports(r)
           THEN /\ nrows' = [nrows EXCEPT ![r] = @ + 1]
                /\ lastRow' = [lastRow EXCEPT ![r] =
                       <<msg_size[r], Fmt2(as), Fmt2(ar), Fmt2(rtt), Fmt2(bw)>>]
                /\ min_rtt' = [min_rtt EXCEPT ![r] =
                       TrackMinRtt(msg_size[r], rtt, @)]
                /\ max_bandwidth' = [max_bandwidth EXCEPT ![r] =
                       TrackMaxBandwidth(bw, @)]
                /\ IF JumpLatches(msg_size[r], as, prev_send_time[r],
                                  buffer_detected[r])
                   THEN /\ buffer_size_estimate' =
                              [buffer_size_estimate EXCEPT ![r] =
                                  ThresholdOf(msg_size[r])]
                        /\ buffer_detected' = [buffer_detected EXCEPT ![r] = 1]
                   ELSE UNCHANGED <<buffer_size_estimate, buffer_detected>>
                /\ prev_send_time' = [prev_send_time EXCEPT ![r] = as]
           ELSE UNCHANGED <<nrows, lastRow, estVars>>

\* BufferLine printing the estimate whether or not a jump was detected
MutBufferLine(detected, estimate) == <<"bytes", estimate>>

\* lines 224-231 and 238-245: the buffer line of the summary
BufferLine(detected, estimate) ==
    IF detected # 0 THEN <<"bytes", estimate>> ELSE <<">1MB">>

\* lines 217, 222, 236: the latency line of the summary, always a number
LatencyLine(lat) == <<"us", Fmt2(lat)>>

(***************************************************************************)
(* Lines 213-249 as executed by rank r: the summary, on rank 0 only.       *)
(***************************************************************************)
FooterBlock(r) ==
    IF Reports(r)
    THEN /\ latency_estimate' = RHalf(min_rtt[r])
         /\ bandwidth_estimate' = max_bandwidth[r]
         /\ summary' = [summary EXCEPT ![r] =
                [latency |-> LatencyLine(RHalf(min_rtt[r])),
                 bandwidth |-> <<"MB/s", Fmt2(max_bandwidth[r])>>,
                 buffer |-> BufferLine(buffer_detected[r],
                                       buffer_size_estimate[r])]]
    ELSE UNCHANGED <<latency_estimate, bandwidth_estimate, summary>>


(***************************************************************************)
(* The two-rank run.                                                       *)
(***************************************************************************)
\* lines 90-97: the variables of main() before the sweep
InitMain ==
    /\ msg_size = [r \in Ranks |-> 0]
    /\ i = [r \in Ranks |-> 0]
    /\ visited = [r \in Ranks |-> <<>>]
    /\ calls = [r \in Ranks |-> [sends |-> 0, recvs |-> 0]]
    /\ t_start = [r \in Ranks |-> 0]
    /\ t_after_send = [r \in Ranks |-> 0]
    /\ t_after_recv = [r \in Ranks |-> 0]
    /\ total_send_time = [r \in Ranks |-> 0]
    /\ total_recv_time = [r \in Ranks |-> 0]
    /\ total_rtt = [r \in Ranks |-> 0]
    /\ avg_send = [r \in Ranks |-> RInt(0)]
    /\ avg_recv = [r \in Ranks |-> RInt(0)]
    /\ avg_rtt = [r \in Ranks |-> RInt(0)]
    /\ bandwidth_mbps = [r \in Ranks |-> RInt(0)]
    /\ min_rtt = [r \in Ranks |-> RInt(1000000000)]
    /\ max_bandwidth = [r \in Ranks |-> RInt(0)]
    /\ buffer_size_estimate = [r \in Ranks |-> 0]
    /\ prev_send_time = [r \in Ranks |-> RInt(0)]
    /\ buffer_detected = [r \in Ranks |-> 0]
    /\ latency_estimate = RInt(0)
    /\ bandwidth_estimate = RInt(0)
    /\ nrows = [r \in Ranks |-> 0]
    /\ lastRow = [r \in Ranks |-> <<>>]
    /\ summary = [r \in Ranks |-> <<>>]
    /\ chan = [r \in Ranks |-> <<>>]
    /\ arrived = {}
    /\ released = {}
    /\ send_cost = 1

Init ==
    /\ InitMain
    /\ pc = [r \in Ranks |-> "setup"]
    /\ input = <<>>
    /\ pos = 0
    /\ pass = 0
    /\ pass1 = <<>>

\* FirstCall of a rank 1 that replies before it receives
MutFirstCall(r, phase) == phase \o "_send"

\* the first call of a round: rank 0 sends first, rank 1 receives first
FirstCall(r, phase) ==
    IF r = 0 THEN phase \o "_send" ELSE phase \o "_recv"

\* WarmupHead without the barrier of line 125 after the last warmup round
MutWarmupHead(r, k) ==
    IF k < WARMUP_ITERATIONS THEN FirstCall(r, "w") ELSE FirstCall(r, "t")

\* line 108: the warmup loop's test before round k
WarmupHead(r, k) ==
    IF k < WARMUP_ITERATIONS THEN FirstCall(r, "w") ELSE "barrier1"

\* TimedHead of a rank 1 that runs one timed round fewer than rank 0
MutTimedHead(r, k) ==
    IF k < NUM_ITERATIONS - r THEN FirstCall(r, "t") ELSE "aggregate"

\* line 128: the timed loop's test before round k
TimedHead(r, k) ==
    IF k < NUM_ITERATIONS THEN FirstCall(r, "t") ELSE "aggregate"

\* InSweep with the maximum size excluded
MutInSweep(m) == m < MAX_MSG_SIZE

\* line 100: the sweep's test
InSweep(m) == m <= MAX_MSG_SIZE

\* line 100: the sweep's step
NextSize(m) == m * 2

\* ForLoop without lines 103-105: the totals run on from size to size
MutForLoop(r, m) ==
    /\ msg_size' = [msg_size EXCEPT ![r] = m]
    /\ UNCHANGED totalVars
    /\ IF InSweep(m)
       THEN /\ i' = [i EXCEPT ![r] = 0]
            /\ visited' = [visited EXCEPT ![r] = Append(@, m)]
            /\ calls' = [calls EXCEPT ![r] = [sends |-> 0, recvs |-> 0]]
            /\ pc' = [pc EXCEPT ![r] = WarmupHead(r, 0)]
       ELSE /\ pc' = [pc EXCEPT ![r] = "footer"]
            /\ UNCHANGED <<i, visited, calls>>

\* lines 100-108: the for loop's test with m as the size, and the entry into
\* its body
ForLoop(r, m) ==
    /\ msg_size' = [msg_size EXCEPT ![r] = m]
    /\ IF InSweep(m)
       THEN /\ total_send_time' = [total_send_time EXCEPT ![r] = 0]
            /\ total_recv_time' = [total_recv_time EXCEPT ![r] = 0]
            /\ total_rtt' = [total_rtt EXCEPT ![r] = 0]
            /\ i' = [i EXCEPT ![r] = 0]
            /\ visited' = [visited EXCEPT ![r] = Append(@, m)]
            /\ calls' = [calls EXCEPT ![r] = [sends |-> 0, recvs |-> 0]]
            /\ pc' = [pc EXCEPT ![r] = WarmupHead(r, 0)]
       ELSE /\ pc' = [pc EXCEPT ![r] = "footer"]
            /\ UNCHANGED <<totalVars, i, visited, calls>>

\* lines 53-100: rank 0 opens the output file, both ranks allocate their
\* buffers, and the rank enters the sweep
SetupOk(r) ==
    /\ pc[r] = "setup"
    /\ ForLoop(r, MIN_MSG_SIZE)
    /\ UNCHANGED <<clockVars, aggVars, estVars, outVars, netVars, scanVars>>

\* lines 56-63, 78-84: fopen (rank 0) or malloc fails; the rank leaves
\* through MPI_Finalize with status 1
SetupFail(r) ==
    /\ pc[r] = "setup"
    /\ \E failure \in {"fopen", "malloc"} :
          /\ failure = "fopen" => r = 0
          /\ pc' = [pc EXCEPT ![r] = "exit1"]
    /\ UNCHANGED <<msg_size, i, visited, calls, totalVars, clockVars, aggVars,
                   estVars, outVars, netVars, scanVars>>

Setup(r) == SetupOk(r) \/ SetupFail(r)

\* Message of a sender that always sends its whole buffer
MutMessage(m, sync, phase, k) ==
    [size |-> MAX_MSG_SIZE, sync |-> sync, phase |-> phase, round |-> k]

\* a message of MPI_Send: its byte count, whether the send waits for the
\* matching receive (rendezvous) or returns at once (buffered), and the
\* loop and the round that sent it
Message(m, sync, phase, k) ==
    [size |-> m, sync |-> sync, phase |-> phase, round |-> k]

\* MPI_Send returns once the message is buffered or has been received
SendMayReturn(r) == \A k \in 1..Len(chan[Peer(r)]) : ~chan[Peer(r)][k].sync

\* the end of round i[r] of the warmup loop
WarmupRoundEnd(r) ==
    /\ i' = [i EXCEPT ![r] = @ + 1]
    /\ pc' = [pc EXCEPT ![r] = WarmupHead(r, i[r] + 1)]

\* lines 113, 120: MPI_Send is called
WarmupSend(r) ==
    /\ pc[r] = "w_send"
    /\ \E sync \in BOOLEAN :
          chan' = [chan EXCEPT ![Peer(r)] =
                      Append(@, Message(msg_size[r], sync, "warmup", i[r]))]
    /\ calls' = [calls EXCEPT ![r].sends = @ + 1]
    /\ pc' = [pc EXCEPT ![r] = "w_send_wait"]
    /\ UNCHANGED <<msg_size, i, visited, clockVars, totalVars, aggVars, estVars,
                   outVars, arrived, released, send_cost, scanVars>>

\* lines 113, 120: MPI_Send returns
WarmupSendReturn(r) ==
    /\ pc[r] = "w_send_wait"
    /\ SendMayReturn(r)
    /\ IF r = 0
       THEN /\ pc' = [pc EXCEPT ![r] = "w_recv"]
            /\ UNCHANGED i
       ELSE WarmupRoundEnd(r)
    /\ UNCHANGED <<msg_size, visited, calls, clockVars, totalVars, aggVars, estVars,
                   outVars, netVars, scanVars>>

\* lines 114, 119: MPI_Recv
WarmupRecv(r) ==
    /\ pc[r] = "w_recv"
    /\ chan[r] # <<>>
    /\ chan' = [chan EXCEPT ![r] = Tail(@)]
    /\ calls' = [calls EXCEPT ![r].recvs = @ + 1]
    /\ IF r = 0
       THEN WarmupRoundEnd(r)
       ELSE /\ pc' = [pc EXCEPT ![r] = "w_send"]
            /\ UNCHANGED i
    /\ UNCHANGED <<msg_size, visited, clockVars, totalVars, aggVars, estVars,
                   outVars, arrived, released, send_cost, scanVars>>

\* BarrierOpen of a barrier that returns without waiting for the peer
MutBarrierOpen(r) == TRUE

\* MPI_Barrier may return to rank r
BarrierOpen(r) == r \in released

\* lines 125, 210: MPI_Barrier is called
BarrierEnter(r) ==
    /\ pc[r] \in {"barrier1", "barrier2"}
    /\ pc' = [pc EXCEPT ![r] = "in_" \o pc[r]]
    /\ IF arrived \cup {r} = Ranks
       THEN /\ arrived' = {}
            /\ released' = Ranks
       ELSE /\ arrived' = arrived \cup {r}
            /\ UNCHANGED released
    /\ UNCHANGED <<msg_size, i, visited, calls, clockVars, totalVars, aggVars, estVars,
                   outVars, chan, send_cost, scanVars>>

\* line 125: MPI_Barrier returns, the timed loop begins
BarrierLeaveTimed(r) ==
    /\ pc[r] = "in_barrier1"
    /\ BarrierOpen(r)
    /\ released' = released \ {r}
    /\ i' = [i EXCEPT ![r] = 0]
    /\ pc' = [pc EXCEPT ![r] = TimedHead(r, 0)]
    /\ UNCHANGED <<msg_size, visited, calls, clockVars, totalVars, aggVars, estVars,
                   outVars, chan, arrived, send_cost, scanVars>>

\* lines 210, 100: MPI_Barrier returns, the size doubles
BarrierLeaveNext(r) ==
    /\ pc[r] = "in_barrier2"
    /\ BarrierOpen(r)
    /\ released' = released \ {r}
    /\ ForLoop(r, NextSize(msg_size[r]))
    /\ UNCHANGED <<clockVars, aggVars, estVars, outVars, chan, arrived,
                   send_cost, scanVars>>


\* get_time_us of a clock that runs backwards
MutGetTime(t, d) == t - d

\* lines 26-31: get_time_us() read d microseconds after it returned t.  Only
\* differences of one round's three readings are used (lines 141-143 and
\* 154-155), so each round's first reading is taken as the origin.
get_time_us(t, d) == t + d

\* the end of round i[r] of the timed loop
TimedRoundEnd(r) ==
    /\ i' = [i EXCEPT ![r] = @ + 1]
    /\ pc' = [pc EXCEPT ![r] = TimedHead(r, i[r] + 1)]

\* lines 135-136 and 151: (rank 0 reads t_start and) MPI_Send is called.
\* The transport's cost of a send is settled per size, at the first timed
\* ping of the size.
TimedSend(r) ==
    /\ pc[r] = "t_send"
    /\ \E sync \in BOOLEAN :
          chan' = [chan EXCEPT ![Peer(r)] =
                      Append(@, Message(msg_size[r], sync, "timed", i[r]))]
    /\ calls' = [calls EXCEPT ![r].sends = @ + 1]
    /\ IF r = 0
       THEN /\ t_start' = [t_start EXCEPT ![r] = 0]
            /\ IF i[r] = 0
               THEN send_cost' \in SendTicks
               ELSE UNCHANGED send_cost
       ELSE UNCHANGED <<t_start, send_cost>>
    /\ pc' = [pc EXCEPT ![r] = "t_send_wait"]
    /\ UNCHANGED <<msg_size, i, visited, t_after_send, t_after_recv, totalVars,
                   aggVars, estVars, outVars, arrived, released, scanVars>>

\* lines 136-137 and 151-155: MPI_Send returns and t_after_send is read;
\* rank 1 ends its round
TimedSendReturn(r) ==
    /\ pc[r] = "t_send_wait"
    /\ SendMayReturn(r)
    /\ IF r = 0
       THEN /\ t_after_send' = [t_after_send EXCEPT ![r] =
                                   get_time_us(t_start[r], send_cost)]
            /\ pc' = [pc EXCEPT ![r] = "t_recv"]
            /\ UNCHANGED <<i, totalVars>>
       ELSE LET t == get_time_us(t_after_recv[r], send_cost)
            IN  /\ t_after_send' = [t_after_send EXCEPT ![r] = t]
                /\ total_recv_time' = [total_recv_time EXCEPT ![r] =
                                          @ + (t_after_recv[r] - t_start[r])]
                /\ total_send_time' = [total_send_time EXCEPT ![r] =
                                          @ + (t - t_after_recv[r])]
                /\ UNCHANGED total_rtt
                /\ TimedRoundEnd(r)
    /\ UNCHANGED <<msg_size, visited, calls, t_start, t_after_recv, aggVars, estVars,
                   outVars, netVars, scanVars>>

\* lines 138-143 and 148-150: MPI_Recv returns and t_after_recv is read
\* (rank 1 read t_start before the call); rank 0 ends its round
TimedRecv(r) ==
    /\ pc[r] = "t_recv"
    /\ chan[r] # <<>>
    /\ chan' = [chan EXCEPT ![r] = Tail(@)]
    /\ calls' = [calls EXCEPT ![r].recvs = @ + 1]
    /\ IF r = 0
       THEN LET t == get_time_us(t_after_send[r], RecvTick)
            IN  /\ t_after_recv' = [t_after_recv EXCEPT ![r] = t]
                /\ total_send_time' = [total_send_time EXCEPT ![r] =
                                          @ + (t_after_send[r] - t_start[r])]
                /\ total_recv_time' = [total_recv_time EXCEPT ![r] =
                                          @ + (t - t_after_send[r])]
                /\ total_rtt' = [total_rtt EXCEPT ![r] = @ + (t - t_start[r])]
                /\ TimedRoundEnd(r)
                /\ UNCHANGED t_start
       ELSE /\ t_start' = [t_start EXCEPT ![r] = 0]
            /\ t_after_recv' = [t_after_recv EXCEPT ![r] =
                                   get_time_us(0, RecvTick)]
            /\ pc' = [pc EXCEPT ![r] = "t_send"]
            /\ UNCHANGED <<i, totalVars>>
    /\ UNCHANGED <<msg_size, visited, t_after_send, aggVars, estVars, outVars,
                   arrived, released, send_cost, scanVars>>

\* lines 159-207
Aggregate(r) ==
    /\ pc[r] = "aggregate"
    /\ AggregateBlock(r)
    /\ pc' = [pc EXCEPT ![r] = "barrier2"]
    /\ UNCHANGED <<msg_size, i, visited, calls, clockVars, totalVars,
                   latency_estimate, bandwidth_estimate, summary, netVars,
                   scanVars>>

\* lines 213-256
Footer(r) ==
    /\ pc[r] = "footer"
    /\ FooterBlock(r)
    /\ pc' = [pc EXCEPT ![r] = "done"]
    /\ UNCHANGED <<msg_size, i, visited, calls, clockVars, totalVars, aggVars, estVars,
                   nrows, lastRow, netVars, scanVars>>

Next ==
    \E r \in Ranks :
        \/ Setup(r)
        \/ WarmupSend(r)
        \/ WarmupSendReturn(r)
        \/ WarmupRecv(r)
        \/ BarrierEnter(r)
        \/ BarrierLeaveTimed(r)
        \/ TimedSend(r)
        \/ TimedSendReturn(r)
        \/ TimedRecv(r)
        \/ Aggregate(r)
        \/ BarrierLeaveNext(r)
        \/ Footer(r)

Spec == Init /\ [][Next]_vars

(***************************************************************************)
(* The run from line 100 on, with fopen and malloc successful.  The ranks  *)
(* are processes the operating system keeps running: while some rank can   *)
(* take a step, a step is eventually taken.                                *)
(***************************************************************************)
\* the steps of rank r once its setup succeeds
Run(r) ==
    \/ SetupOk(r)
    \/ WarmupSend(r)
    \/ WarmupSendReturn(r)
    \/ WarmupRecv(r)
    \/ BarrierEnter(r)
    \/ BarrierLeaveTimed(r)
    \/ TimedSend(r)
    \/ TimedSendReturn(r)
    \/ TimedRecv(r)
    \/ Aggregate(r)
    \/ BarrierLeaveNext(r)
    \/ Footer(r)

NextLive == \E r \in Ranks : Run(r)

SpecLive == Init /\ [][NextLive]_vars /\ WF_vars(NextLive)

(***************************************************************************)
(* Transport failures.  main() reads the return code of no MPI call and    *)
(* installs no error handler, so the handler of MPI_COMM_WORLD is the      *)
(* default one, MPI_ERRORS_ARE_FATAL: a call that fails does not return,   *)
(* and the job is aborted.  The abort reaches the other rank at some       *)
(* later moment; until then that rank runs on.                             *)
(***************************************************************************)
\* lines 113-155, 125, 210: rank r is inside MPI_Send, MPI_Recv or
\* MPI_Barrier
InCall(r) ==
    pc[r] \in {"w_send_wait", "w_recv", "in_barrier1",
               "t_send_wait", "t_recv", "in_barrier2"}

\* the MPI call rank r is in fails: the rank stops there
Fail(r) ==
    /\ InCall(r)
    /\ pc' = [pc EXCEPT ![r] = "aborted"]
    /\ UNCHANGED <<msg_size, i, visited, calls, clockVars, totalVars, aggVars,
                   estVars, outVars, netVars, scanVars>>

\* the abort of the job reaches rank r, which has not left MPI yet
Kill(r) ==
    /\ pc[Peer(r)] = "aborted"
    /\ pc[r] \notin {"aborted", "killed", "exit1", "done"}
    /\ pc' = [pc EXCEPT ![r] = "killed"]
    /\ UNCHANGED <<msg_size, i, visited, calls, clockVars, totalVars, aggVars,
                   estVars, outVars, netVars, scanVars>>

NextFail ==
    \/ Next
    \/ \E r \in Ranks : Fail(r) \/ Kill(r)

SpecFail == Init /\ [][NextFail]_vars


(***************************************************************************)
(* The estimate trackers on their own: rank 0 runs lines 159-207 over a    *)
(* given sequence of per-size totals, then the footer (lines 213-249); the *)
(* same sequence may then be run a second time with the trackers kept.     *)
(***************************************************************************)
\* first sizes of the sequences: below, at and above the 64-byte cutoff,
\* below and at the 1024-byte floor
StartSizes == {1, 32, 128, 512, 1024}

\* totals of NUM_ITERATIONS rounds, in microseconds
SendTotals == {0, 100, 150, 200}
RecvTotals == {0, 100}

Aggregates(start, ts) ==
    [k \in 1..Len(ts) |->
        [message_size |-> start * 2^(k - 1),
         total_send_time |-> ts[k][1],
         total_recv_time |-> ts[k][2]]]

\* avg_send = 10, 10, 10, 50, 55, 60 for the sizes 128 .. 4096
JumpExample ==
    Aggregates(128, <<<<1000, 0>>, <<1000, 0>>, <<1000, 0>>, <<5000, 0>>,
                      <<5500, 0>>, <<6000, 0>>>>)

\* avg_rtt = 100, 90, 95 for the sizes 1, 2, 4
LatencyExample ==
    Aggregates(1, <<<<0, 10000>>, <<0, 9000>>, <<0, 9500>>>>)

ScanInputs ==
    {Aggregates(start, ts) :
        start \in StartSizes,
        ts \in UNION {[1..n -> SendTotals \X RecvTotals] : n \in 1..MaxAggs}}
    \cup {JumpExample, LatencyExample}

InitScan ==
    /\ InitMain
    /\ pc = [r \in Ranks |-> IF r = 0 THEN "scan_load" ELSE "idle"]
    /\ input \in ScanInputs
    /\ pos = 0
    /\ pass = 1
    /\ pass1 = <<>>

\* lines 100-157 in effect: the next size and its three totals
ScanLoad ==
    /\ pc[0] = "scan_load"
    /\ pos < Len(input)
    /\ LET a == input[pos + 1]
       IN  /\ msg_size' = [msg_size EXCEPT ![0] = a.message_size]
           /\ total_send_time' = [total_send_time EXCEPT ![0] = a.total_send_time]
           /\ total_recv_time' = [total_recv_time EXCEPT ![0] = a.total_recv_time]
           /\ total_rtt' = [total_rtt EXCEPT ![0] =
                               a.total_send_time + a.total_recv_time]
    /\ pos' = pos + 1
    /\ pc' = [pc EXCEPT ![0] = "scan_agg"]
    /\ UNCHANGED <<i, visited, calls, clockVars, aggVars, estVars, outVars, netVars,
                   input, pass, pass1>>

\* lines 159-207
ScanAggregate ==
    /\ pc[0] = "scan_agg"
    /\ AggregateBlock(0)
    /\ pc' = [pc EXCEPT ![0] = "scan_load"]
    /\ UNCHANGED <<msg_size, i, visited, calls, clockVars, totalVars,
                   latency_estimate, bandwidth_estimate, summary, netVars,
                   scanVars>>

\* lines 213-249
ScanFooter ==
    /\ pc[0] = "scan_load"
    /\ pos = Len(input)
    /\ FooterBlock(0)
    /\ pc' = [pc EXCEPT ![0] = "scan_done"]
    /\ pass1' = IF pass = 1
                THEN <<buffer_detected[0], buffer_size_estimate[0]>>
                ELSE pass1
    /\ UNCHANGED <<msg_size, i, visited, calls, clockVars, totalVars, aggVars, estVars,
                   nrows, lastRow, netVars, input, pos, pass>>

\* the same sequence again, the trackers carried over
ScanAgain ==
    /\ pc[0] = "scan_done"
    /\ pass = 1
    /\ pass' = 2
    /\ pos' = 0
    /\ pc' = [pc EXCEPT ![0] = "scan_load"]
    /\ UNCHANGED <<msg_size, i, visited, calls, clockVars, totalVars, aggVars, estVars,
                   outVars, netVars, input, pass1>>

NextScan == ScanLoad \/ ScanAggregate \/ ScanFooter \/ ScanAgain

SpecScan == InitScan /\ [][NextScan]_vars


(***************************************************************************)
(* Properties of the estimate trackers, checked under SpecScan.            *)
(***************************************************************************)
ScanDone == pc[0] = "scan_done"

\* between two sizes of the scan, or after its footer
ScanAtRest == pc[0] \in {"scan_load", "scan_done"}

Indices == 1..Len(input)

SmallMessage(k) == input[k].message_size <= 64

RttOf(k) ==
    Rat(input[k].total_send_time + input[k].total_recv_time, NUM_ITERATIONS)

\* avg_send of aggregate k exceeds 1.5 times avg_send of the aggregate
\* before it, at a size of at least 1024 bytes
QualifyingJump(k) ==
    /\ k > 1
    /\ input[k].message_size >= 1024
    /\ 2 * input[k].total_send_time > 3 * input[k - 1].total_send_time

FirstJump(k) ==
    /\ QualifyingJump(k)
    /\ \A j \in 1..(k - 1) : ~QualifyingJump(j)

\* C1: in one pass over size-ordered aggregates, once the first aggregate
\* whose avg_send exceeds 1.5 times the previous avg_send at a size >= 1024
\* has been processed, detection is latched and the threshold is and stays
\* half that size, whatever the previous avg_send was (0 included); for
\* avg_send = 10,10,10,50,55,60 at sizes 128..4096 the threshold is 512.
C1_FirstJumpLatchesThreshold ==
    (pass = 1 /\ ScanAtRest) =>
        /\ \A k \in 1..pos :
              FirstJump(k) =>
                  /\ buffer_detected[0] = 1
                  /\ buffer_size_estimate[0] = input[k].message_size \div 2
        /\ (input = JumpExample /\ ScanDone) =>
              summary[0].buffer = <<"bytes", 512>>

\* C5: the latency estimate is half of the least avg_rtt among the
\* aggregates of at most 64 bytes, whatever the larger aggregates hold; for
\* avg_rtt = 100, 90, 95 at sizes 1, 2, 4 it is 45.
C5_LatencyIsHalfMinSmallRtt ==
    (ScanDone /\ \E k \in Indices : SmallMessage(k)) =>
        /\ \E k \in Indices :
              SmallMessage(k) /\ latency_estimate = RHalf(RttOf(k))
        /\ \A k \in Indices :
              SmallMessage(k) => RLeq(latency_estimate, RHalf(RttOf(k)))
        /\ input = LatencyExample => latency_estimate = RInt(45)

\* a finished scan in which an aggregate above 64 bytes has a smaller
\* avg_rtt than every aggregate of at most 64 bytes
C5_Witness ==
    /\ ScanDone
    /\ \E k \in Indices : SmallMessage(k)
    /\ \E j \in Indices :
          /\ ~SmallMessage(j)
          /\ RLess(RHalf(RttOf(j)), latency_estimate)

C7_BufferLineNumericIffLatched ==
    ScanDone =>
        /\ summary[0].buffer[1] = ">1MB" <=> buffer_detected[0] = 0
        /\ summary[0].buffer[1] = "bytes" <=> buffer_detected[0] = 1
        /\ buffer_detected[0] = 1 =>
              summary[0].buffer = <<"bytes", buffer_size_estimate[0]>>
        /\ buffer_detected[0] = 0 => Len(summary[0].buffer) = 1
        /\ (pass = 1 /\ \A k \in Indices : ~QualifyingJump(k)) =>
              summary[0].buffer[1] = ">1MB"

\* a finished sweep that reached 1024 bytes and saw no qualifying jump
C7_Witness ==
    /\ ScanDone
    /\ pass = 1
    /\ Len(input) >= 2
    /\ input[Len(input)].message_size >= 1024
    /\ \A k \in Indices : ~QualifyingJump(k)
    /\ summary[0].buffer = <<">1MB">>

\* C8: after each size, bandwidth * avg_rtt = 2 * message_size when
\* avg_rtt > 0 and bandwidth = 0 otherwise; bandwidth >= 0, and it is 0
\* exactly when avg_rtt is 0.
C8_BandwidthFormula ==
    (ScanAtRest /\ pos > 0) =>
        LET bw == bandwidth_mbps[0]
            rtt == avg_rtt[0]
        IN  /\ RLess(RInt(0), rtt) =>
                  bw[1] * rtt[1] = 2 * msg_size[0] * bw[2] * rtt[2]
            /\ ~RLess(RInt(0), rtt) => bw = RInt(0)
            /\ RLeq(RInt(0), bw)
            /\ bw = RInt(0) <=> rtt = RInt(0)

\* a size whose avg_rtt is 0, following a size whose avg_rtt was not
C8_Witness ==
    /\ pc[0] = "scan_load"
    /\ pos > 1
    /\ avg_rtt[0] = RInt(0)
    /\ bandwidth_mbps[0] = RInt(0)
    /\ RLess(RInt(0), max_bandwidth[0])

BandwidthOf(k) == Bandwidth(input[k].message_size, RttOf(k))

\* the aggregates processed so far, in either pass
Seen == IF pass = 2 THEN Indices ELSE 1..pos

\* C9: after each size the bandwidth tracker is the greatest bandwidth of
\* the sizes seen so far, in whatever order the bandwidths rise and fall,
\* and the reported bandwidth estimate is the tracker.
C9_MaxBandwidthIsRunningMax ==
    ScanAtRest =>
        /\ \A k \in Seen : RLeq(BandwidthOf(k), max_bandwidth[0])
        /\ Seen # {} => \E k \in Seen : max_bandwidth[0] = BandwidthOf(k)
        /\ ScanDone => bandwidth_estimate = max_bandwidth[0]

\* a finished sweep of three sizes whose greatest bandwidth is the middle one
C9_Witness ==
    /\ ScanDone
    /\ pass = 1
    /\ Len(input) = 3
    /\ RLess(BandwidthOf(1), BandwidthOf(2))
    /\ RLess(BandwidthOf(3), BandwidthOf(2))
    /\ bandwidth_estimate = BandwidthOf(2)

InWarmup(r) == pc[r] \in {"w_send", "w_send_wait", "w_recv"}

InTimed(r) == pc[r] \in {"t_send", "t_send_wait", "t_recv"}

\* rank r has run every warmup and every timed round of its current size
AllRoundsDone(r) ==
    /\ pc[r] \in {"aggregate", "barrier2", "in_barrier2"}
    /\ i[r] = NUM_ITERATIONS

\* C2: a rank is at a larger size than its peer only if that size is the
\* peer's doubled and the peer has completed all warmup and timed rounds of
\* its own size and waits in the barrier that ends it; so no round of size
\* 2N begins on a rank before both ranks have completed the rounds of N.
C2_BarriersOrderSizes ==
    \A r \in Ranks :
        LET s == Peer(r)
        IN  (msg_size[s] >= MIN_MSG_SIZE /\ msg_size[r] > msg_size[s]) =>
                /\ msg_size[r] = 2 * msg_size[s]
                /\ AllRoundsDone(s)
                /\ pc[s] = "in_barrier2"
                /\ \A k \in 1..Len(chan[r]) : chan[r][k].size > msg_size[s]

\* rank 0 has sent the first warmup ping of 2048 bytes while rank 1 has not
\* yet returned from the barrier that ends the size 1024
C2_Witness ==
    /\ msg_size[0] = 2048
    /\ pc[0] = "w_send_wait"
    /\ msg_size[1] = 1024
    /\ pc[1] = "in_barrier2"
    /\ Len(chan[1]) = 1

\* C3: while a rank is in the timed loop of a size, the other rank is at
\* the same size and has left the warmup loop with all WARMUP_ITERATIONS
\* rounds run, and no warmup message is in flight.
C3_TimedOnlyAfterWarmupDrained ==
    \A r \in Ranks :
        InTimed(r) =>
            LET s == Peer(r)
            IN  /\ msg_size[s] = msg_size[r]
                /\ ~InWarmup(s)
                /\ pc[s] # "barrier1"
                /\ pc[s] = "in_barrier1" => i[s] = WARMUP_ITERATIONS
                /\ pc[s] = "in_barrier1" \/ InTimed(s) \/ AllRoundsDone(s)
                /\ \A q \in Ranks : \A k \in 1..Len(chan[q]) :
                      chan[q][k].phase # "warmup"

\* rank 0 is about to send the first timed ping of a size while rank 1,
\* its warmup done, has not yet returned from the barrier
C3_Witness ==
    /\ pc[0] = "t_send"
    /\ i[0] = 0
    /\ msg_size[0] = 4
    /\ pc[1] = "in_barrier1"
    /\ i[1] = WARMUP_ITERATIONS

\* the sizes 1, 2, 4, ..., 1048576
SweepSizes == [k \in 1..21 |-> 2^(k - 1)]

\* C4: the sizes a rank's loop body has entered are always the first ones
\* of 1, 2, 4, ..., 1048576, in that order; a rank that has left the loop
\* has entered all 21; the size in the loop body and the size of every
\* message never exceed 1048576.
C4_SweepIsTheTwentyOnePowersOfTwo ==
    \A r \in Ranks :
        /\ Len(visited[r]) <= 21
        /\ visited[r] = SubSeq(SweepSizes, 1, Len(visited[r]))
        /\ pc[r] \in {"footer", "done"} => visited[r] = SweepSizes
        /\ pc[r] \notin {"setup", "exit1", "footer", "done"} =>
              /\ visited[r] # <<>>
              /\ msg_size[r] = visited[r][Len(visited[r])]
              /\ msg_size[r] <= MAX_MSG_SIZE
        /\ \A k \in 1..Len(chan[r]) :
              /\ chan[r][k].size <= MAX_MSG_SIZE
              /\ \E n \in 1..21 : chan[r][k].size = SweepSizes[n]

\* both ranks have finished after the round of 1048576 bytes
C4_Witness ==
    /\ \A r \in Ranks : pc[r] = "done"
    /\ Len(visited[0]) = 21
    /\ visited[1][21] = MAX_MSG_SIZE
    /\ nrows[0] = 21

\* C11: on rank 0 the three timestamps of a round are in order, so the
\* round's send, receive and round-trip durations are not negative; the
\* totals are not negative and the round-trip total is at least the send
\* total and the receive total; for every size aggregated, avg_rtt is at
\* least avg_send and at least avg_recv.
C11_DurationsNonNegativeAndRttDominates ==
    /\ pc[0] = "t_recv" => t_start[0] <= t_after_send[0]
    /\ pc[0] \notin {"t_send_wait", "t_recv"} =>
          /\ t_start[0] <= t_after_send[0]
          /\ t_after_send[0] <= t_after_recv[0]
    /\ total_send_time[0] >= 0
    /\ total_recv_time[0] >= 0
    /\ total_rtt[0] >= total_send_time[0]
    /\ total_rtt[0] >= total_recv_time[0]
    /\ RLeq(RInt(0), avg_send[0])
    /\ RLeq(RInt(0), avg_recv[0])
    /\ RLeq(avg_send[0], avg_rtt[0])
    /\ RLeq(avg_recv[0], avg_rtt[0])

\* rank 0 has aggregated the size 2 after rounds whose send took two ticks:
\* avg_recv < avg_send < avg_rtt
C11_Witness ==
    /\ pc[0] = "barrier2"
    /\ msg_size[0] = 2
    /\ send_cost = MaxSendTick
    /\ RLess(avg_recv[0], avg_send[0])
    /\ RLess(avg_send[0], avg_rtt[0])

\* C13: rank 1 never writes a row or a summary and its latency, bandwidth
\* and buffer trackers keep the values of lines 93-97; the final estimates
\* are computed by rank 0's footer only.
C13_OnlyRankZeroReports ==
    /\ nrows[1] = 0
    /\ lastRow[1] = <<>>
    /\ summary[1] = <<>>
    /\ min_rtt[1] = RInt(1000000000)
    /\ max_bandwidth[1] = RInt(0)
    /\ buffer_size_estimate[1] = 0
    /\ prev_send_time[1] = RInt(0)
    /\ buffer_detected[1] = 0
    /\ pc[0] # "done" =>
          /\ latency_estimate = RInt(0)
          /\ bandwidth_estimate = RInt(0)
          /\ summary[0] = <<>>

\* both ranks have finished: rank 0 wrote 21 rows and the summary and moved
\* its trackers, rank 1 aggregated its own totals of the last size
C13_Witness ==
    /\ pc[0] = "done"
    /\ pc[1] = "done"
    /\ nrows[0] = 21
    /\ summary[0] # <<>>
    /\ min_rtt[0] # RInt(1000000000)
    /\ max_bandwidth[0] # RInt(0)
    /\ avg_send[1] # RInt(0)

\* rank r is in the body of the sweep's loop
InLoop(r) == pc[r] \notin {"setup", "exit1", "footer", "done"}

\* the rounds, warmup and timed, rank r has completed at its current size
RoundsDone(r) ==
    IF InWarmup(r) \/ pc[r] \in {"barrier1", "in_barrier1"}
    THEN i[r]
    ELSE WARMUP_ITERATIONS + i[r]

\* C14: at every moment of a size a rank has made one send and one receive
\* per completed round, plus the calls of the round in progress: rank 0 its
\* send and then its receive, rank 1 its receive and then its send.  Rank 1
\* has never sent more replies than it has received pings, rank 0 has never
\* sent a ping of a later round before receiving the reply of the current
\* one, and no rank has received more than its peer has sent.
C14_OneSendOneReceivePerRoundInOrder ==
    /\ \A r \in Ranks :
          /\ pc[r] = "setup" => calls[r] = [sends |-> 0, recvs |-> 0]
          /\ pc[r] \in {"footer", "done"} =>
                calls[r] = [sends |-> WARMUP_ITERATIONS + NUM_ITERATIONS,
                            recvs |-> WARMUP_ITERATIONS + NUM_ITERATIONS]
    /\ InLoop(0) =>
          /\ calls[0].recvs = RoundsDone(0)
          /\ calls[0].sends =
                IF pc[0] \in {"w_send_wait", "w_recv", "t_send_wait", "t_recv"}
                THEN RoundsDone(0) + 1 ELSE RoundsDone(0)
    /\ InLoop(1) =>
          /\ calls[1].sends =
                IF pc[1] \in {"w_send_wait", "t_send_wait"}
                THEN RoundsDone(1) + 1 ELSE RoundsDone(1)
          /\ calls[1].recvs =
                IF pc[1] \in {"w_send", "w_send_wait", "t_send", "t_send_wait"}
                THEN RoundsDone(1) + 1 ELSE RoundsDone(1)
    /\ calls[1].sends <= calls[1].recvs
    /\ calls[0].sends <= calls[0].recvs + 1
    /\ (InLoop(0) /\ InLoop(1) /\ msg_size[0] = msg_size[1]) =>
          /\ calls[1].recvs <= calls[0].sends
          /\ calls[0].recvs <= calls[1].sends

\* the sixth timed round of size 4: rank 0 has sent its ping and waits for
\* the reply, rank 1 has received the ping and is about to reply
C14_Witness ==
    /\ msg_size[0] = 4
    /\ pc[0] = "t_recv"
    /\ pc[1] = "t_send"
    /\ i[0] = 5
    /\ calls[0] = [sends |-> WARMUP_ITERATIONS + 6, recvs |-> WARMUP_ITERATIONS + 5]
    /\ calls[1] = [sends |-> WARMUP_ITERATIONS + 5, recvs |-> WARMUP_ITERATIONS + 6]

\* C16: whenever a rank is inside MPI_Recv and a message from its peer has
\* arrived, the message at the head of the channel has exactly the rank's
\* msg_size bytes and was sent by the peer's loop of the same kind (warmup
\* or timed) in the round of the same index.
C16_ReceivedSizeMatchesPosted ==
    \A r \in Ranks :
        (pc[r] \in {"w_recv", "t_recv"} /\ chan[r] # <<>>) =>
            /\ Head(chan[r]).size = msg_size[r]
            /\ Head(chan[r]).phase =
                  (IF pc[r] = "w_recv" THEN "warmup" ELSE "timed")
            /\ Head(chan[r]).round = i[r]

\* rank 1 is about to complete the receive of the fourth timed ping of
\* size 8, sent by rendezvous
C16_Witness ==
    /\ pc[1] = "t_recv"
    /\ msg_size[1] = 8
    /\ i[1] = 3
    /\ chan[1] = <<Message(8, TRUE, "timed", 3)>>
    /\ pc[0] = "t_send_wait"

\* rank r is in the warmup loop of its size or in the barrier after it
InWarmupStage(r) == InWarmup(r) \/ pc[r] \in {"barrier1", "in_barrier1"}

\* rank r is past the timed loop of its size (lines 159-210)
AfterTimed(r) == pc[r] \in {"aggregate", "barrier2", "in_barrier2"}

\* what one timed round adds to total_send_time and to total_recv_time on
\* either rank, and to total_rtt on rank r
RoundSend == send_cost
RoundRecv == RecvTick
RoundRtt(r) == IF r = 0 THEN send_cost + RecvTick ELSE 0

\* C17: the three totals of a rank are 0 from the entry into a size to the
\* end of its warmup loop, and after k timed rounds of the size they are k
\* times what one round adds; the averages are the totals of exactly
\* NUM_ITERATIONS timed rounds of the size, divided by NUM_ITERATIONS.
C17_AveragesOverTheTimedRoundsOnly ==
    \A r \in Ranks :
        /\ InWarmupStage(r) =>
              /\ total_send_time[r] = 0
              /\ total_recv_time[r] = 0
              /\ total_rtt[r] = 0
        /\ (InTimed(r) \/ AfterTimed(r)) =>
              /\ total_send_time[r] = i[r] * RoundSend
              /\ total_recv_time[r] = i[r] * RoundRecv
              /\ total_rtt[r] = i[r] * RoundRtt(r)
        /\ AfterTimed(r) => i[r] = NUM_ITERATIONS
        /\ pc[r] \in {"barrier2", "in_barrier2"} =>
              /\ avg_send[r] = Rat(NUM_ITERATIONS * RoundSend, NUM_ITERATIONS)
              /\ avg_recv[r] = Rat(NUM_ITERATIONS * RoundRecv, NUM_ITERATIONS)
              /\ avg_rtt[r] = Rat(NUM_ITERATIONS * RoundRtt(r), NUM_ITERATIONS)

\* rank 0 has aggregated the size 16, whose sends took MaxSendTick each:
\* the total is that of its NUM_ITERATIONS timed rounds and nothing else
C17_Witness ==
    /\ pc[0] = "barrier2"
    /\ msg_size[0] = 16
    /\ send_cost = MaxSendTick
    /\ prev_send_time[0] = RInt(MaxSendTick)
    /\ total_send_time[0] = NUM_ITERATIONS * MaxSendTick
    /\ avg_send[0] = RInt(MaxSendTick)
    /\ lastRow[0][1] = 16

\* rank r is inside a blocking MPI call that cannot return in this state:
\* a receive with no message, a rendezvous send not yet received, or a
\* barrier its peer has not entered
Blocked(r) ==
    \/ pc[r] \in {"w_recv", "t_recv"} /\ chan[r] = <<>>
    \/ pc[r] \in {"w_send_wait", "t_send_wait"} /\ ~SendMayReturn(r)
    \/ pc[r] \in {"in_barrier1", "in_barrier2"} /\ ~BarrierOpen(r)

\* C18: no state has one rank gone through the early exit of lines 53-84
\* (MPI_Finalize, return 1) while the other rank is blocked in a send, a
\* receive or a barrier, which the rank that left will never match.
C18_EarlyExitNeverStrandsThePeer ==
    \A r \in Ranks : pc[r] = "exit1" => ~Blocked(Peer(r))

\* rank r has entered MPI_Barrier and not yet gone on
InBarrier(r) == pc[r] \in {"in_barrier1", "in_barrier2"}

\* C19 as stated: the two channels never hold more than one message
\* between them, and at the moment the second of the two ranks returns from
\* a barrier, so that both have passed it, both channels are empty.
C19_OneMessageInFlightNoneOncePastBarrier ==
    /\ [](Len(chan[0]) + Len(chan[1]) <= 1)
    /\ [][\A r \in Ranks :
            (InBarrier(r) /\ ~InBarrier(r)' /\ ~InBarrier(Peer(r))') =>
                \A q \in Ranks : chan'[q] = <<>>]_vars

\* C19, amended: the two channels never hold more than one message between
\* them, and whenever both ranks are inside a barrier (both have entered
\* it, so that it opens, and neither has gone on yet) both channels are
\* empty.
C19_OneMessageInFlightNoneAtBarriers ==
    /\ Len(chan[0]) + Len(chan[1]) <= 1
    /\ (\A r \in Ranks : InBarrier(r)) => \A r \in Ranks : chan[r] = <<>>
    /\ released = Ranks =>
          /\ \A r \in Ranks : InBarrier(r)
          /\ \A r \in Ranks : chan[r] = <<>>

\* the barrier after the timed rounds of size 32 has just opened for both
\* ranks
C19_Witness ==
    /\ pc[0] = "in_barrier2"
    /\ pc[1] = "in_barrier2"
    /\ released = Ranks
    /\ msg_size[0] = 32
    /\ calls[0].sends = WARMUP_ITERATIONS + NUM_ITERATIONS
    /\ calls[1].sends = WARMUP_ITERATIONS + NUM_ITERATIONS

\* the powers of two 512, 1024, ..., 524288
LatchableThresholds == {SweepSizes[k] : k \in 10..20}

\* C20: on rank 0, while buffer_detected is 0 buffer_size_estimate is 0;
\* once buffer_detected is 1 buffer_size_estimate is a power of two from
\* 512 to 524288; buffer_detected is 0 or 1, never goes back from 1 to 0,
\* and a latched estimate never changes.
C20_DetectionFlagAndEstimateAgree ==
    /\ [](/\ buffer_detected[0] \in {0, 1}
          /\ buffer_detected[0] = 0 => buffer_size_estimate[0] = 0
          /\ buffer_detected[0] = 1 =>
                buffer_size_estimate[0] \in LatchableThresholds)
    /\ [][buffer_detected[0] = 1 =>
            /\ buffer_detected'[0] = 1
            /\ buffer_size_estimate'[0] = buffer_size_estimate[0]]_vars

\* rank 0 has finished the sweep with the jump latched at the last size,
\* 1048576 bytes
C20_Witness ==
    /\ pc[0] = "footer"
    /\ buffer_detected[0] = 1
    /\ buffer_size_estimate[0] = 524288

(***************************************************************************)
(* Claims about SpecLive                                                   *)
(***************************************************************************)
\* both ranks have run the 21 sizes and returned from MPI_Finalize
Finalised == \A r \in Ranks : pc[r] = "done" /\ visited[r] = SweepSizes

\* C15: in every reachable state either both ranks are finalised or some
\* rank can take a step (no deadlock, whether a send returns at once or
\* waits for its receive), and every fair run ends with both ranks
\* finalised after the 21 sizes.
C15_NoDeadlockAndTermination ==
    /\ [](Finalised \/ ENABLED NextLive)
    /\ <>[]Finalised

\* rank 0 waits in a rendezvous send of 1048576 bytes for rank 1, which
\* has not yet returned from the barrier of the previous size
C15_Witness ==
    /\ msg_size[0] = MAX_MSG_SIZE
    /\ pc[0] = "w_send_wait"
    /\ chan[1] # <<>>
    /\ Head(chan[1]).sync
    /\ pc[1] = "in_barrier2"

(***************************************************************************)
(* Claims about SpecFail                                                   *)
(***************************************************************************)
\* C12: once an MPI call of some rank has failed, no further aggregate row
\* is written and no final estimates are produced.
C12_FailureStopsTheSweep ==
    [][(\E r \in Ranks : pc[r] = "aborted") =>
          /\ nrows' = nrows
          /\ summary' = summary]_vars

=============================================================================
